---------------------------- MODULE Spec2Model ----------------------------
(***************************************************************************)
(* A model of sidkurella/pipedream: the value comparator and the condition *)
(* tree (condition.go), the value builders (value builder file), the       *)
(* pipeline context (context.go), the query node (nodes) and the pipeline  *)
(* executor with its data source registry (data_source.go, pipedream.go).  *)
(*                                                                         *)
(* Integers are kept as 64-bit words, four 16-bit limbs, most significant  *)
(* limb first: a signed integer is the two's complement word that          *)
(* reflect.Value.Int() returns (sign-extended to int64), an unsigned one   *)
(* the word that reflect.Value.Uint() returns.  A Go conversion            *)
(* uint64(s) of an int64 is then the identity on the word, and wraparound  *)
(* is visible in the model.                                                *)
(***************************************************************************)
EXTENDS Integers, Sequences, FiniteSets, TLC

VARIABLES
    pc,        \* position of the driver of the specification in use
    lhs,       \* compareValues: left operand
    rhs,       \* compareValues: right operand
    op,        \* compareValues: operand (ConditionOperand)
    cmpRes,    \* compareValues: the (bool, error) it returned
    heap,      \* the maps allocated so far: heap[r] is the map at reference r
    pctx,      \* the PipelineContext in use, a struct holding a map reference
    pctx2,     \* the PipelineContext that Clone returned
    lastOp,    \* the last call made on a PipelineContext
    cond,      \* the Condition being evaluated
    evalRes,   \* what Evaluate returned, with the calls it made, in order
    dataSources, \* ExecutionContext.dataSources: the registry, by name
    pipeline,  \* the Pipeline handed to PipelineExecutor.Execute
    node,      \* the QueryNode whose Execute is called
    called,    \* the data source queries made so far, in order
    execRes,   \* the (any, error) that PipelineExecutor.Execute returned
    nodeRes,   \* the error that QueryNode.Execute returned, or its panic
    valueGetter, \* the ValueGetter whose GetValue is called
    getInput,  \* GetValue: the input
    getKey,    \* GetValue: the key
    got,       \* the (any, error) that GetValue returned
    builder,   \* the DynamicValue whose Build is called
    built      \* the (any, error) that Build returned

compareVars == <<lhs, rhs, op, cmpRes>>

conditionVars == <<cond, evalRes>>

contextVars == <<heap, pctx, pctx2, lastOp>>

pipelineVars == <<dataSources, pipeline, node, called, execRes, nodeRes>>

builderVars == <<valueGetter, getInput, getKey, got, builder, built>>

vars == <<pc, compareVars, contextVars, conditionVars, pipelineVars, builderVars>>

(***************************************************************************)
(* Errors.  An error value is the sentinel it wraps (errors.Is) and the    *)
(* arguments formatted into its message.                                   *)
(***************************************************************************)
NoErr == [is |-> "nil", args |-> <<>>]

Err(sentinel, args) == [is |-> sentinel, args |-> args]

\* A (bool, error) result of the comparator or of a condition.
Ok(b) == [val |-> b, err |-> NoErr]

Fail(sentinel, args) == [val |-> FALSE, err |-> Err(sentinel, args)]

(***************************************************************************)
(* 64-bit words.                                                           *)
(***************************************************************************)
LimbBase == 2^16

LimbMax == LimbBase - 1

Zero64 == <<0, 0, 0, 0>>

One64 == <<0, 0, 0, 1>>

MaxInt64 == <<LimbBase \div 2 - 1, LimbMax, LimbMax, LimbMax>>

MinInt64 == <<LimbBase \div 2, 0, 0, 0>>

MaxUint64 == <<LimbMax, LimbMax, LimbMax, LimbMax>>

\* The int64 word of a small integer n, -2^31 < n < 2^31 (sign extension).
FromInt(n) ==
    IF n >= 0
    THEN <<0, 0, n \div LimbBase, n % LimbBase>>
    ELSE <<LimbMax, LimbMax,
           LimbMax - ((-n - 1) \div LimbBase),
           LimbMax - ((-n - 1) % LimbBase)>>

\* Lexicographic order of two sequences of naturals: Go's < on strings
\* (bytewise) and, on words of equal length, on unsigned integers.
LexLess(a, b) ==
    \E i \in 1..Len(b) :
        /\ \A j \in 1..(i - 1) : j <= Len(a) /\ a[j] = b[j]
        /\ \/ i = Len(a) + 1
           \/ i <= Len(a) /\ a[i] < b[i]

\* s < 0 for the int64 held in word w.
IsNeg(w) == w[1] >= LimbBase \div 2

\* Go's < on uint64.
ULess(a, b) == LexLess(a, b)

\* Go's < on int64 (two's complement).
SLess(a, b) ==
    IF IsNeg(a) # IsNeg(b) THEN IsNeg(a) ELSE LexLess(a, b)

\* w + 1 modulo 2^64.
Inc64(w) ==
    IF w[4] < LimbMax THEN <<w[1], w[2], w[3], w[4] + 1>>
    ELSE IF w[3] < LimbMax THEN <<w[1], w[2], w[3] + 1, 0>>
    ELSE IF w[2] < LimbMax THEN <<w[1], w[2] + 1, 0, 0>>
    ELSE <<(w[1] + 1) % LimbBase, 0, 0, 0>>

\* The magnitude |s| of the int64 in word w, as an unsigned word.
Mag64(w) ==
    IF IsNeg(w)
    THEN Inc64(<<LimbMax - w[1], LimbMax - w[2], LimbMax - w[3], LimbMax - w[4]>>)
    ELSE w

(***************************************************************************)
(* float64.  A float is NaN or (-1)^neg * (mag + half/2), mag an integer   *)
(* of five limbs (2^64 is a float64).                                      *)
(***************************************************************************)
Flt(neg, mag, half) == [nan |-> FALSE, neg |-> neg, mag |-> mag, half |-> half]

NaN == [nan |-> TRUE, neg |-> FALSE, mag |-> <<0, 0, 0, 0, 0>>, half |-> FALSE]

FloatIsZero(f) == f.mag = <<0, 0, 0, 0, 0>> /\ ~f.half

\* Go's == on float64 (IEEE 754: NaN equals nothing, -0 equals +0).
FloatEq(a, b) ==
    /\ ~a.nan
    /\ ~b.nan
    /\ \/ FloatIsZero(a) /\ FloatIsZero(b)
       \/ a.neg = b.neg /\ a.mag = b.mag /\ a.half = b.half

MagLess(a, b) ==
    LexLess(a.mag, b.mag) \/ (a.mag = b.mag /\ ~a.half /\ b.half)

\* Go's < on float64 (false whenever an operand is NaN).
FloatLt(a, b) ==
    /\ ~a.nan
    /\ ~b.nan
    /\ ~(FloatIsZero(a) /\ FloatIsZero(b))
    /\ CASE a.neg /\ ~b.neg -> TRUE
         [] ~a.neg /\ b.neg -> FALSE
         [] ~a.neg /\ ~b.neg -> MagLess(a, b)
         [] OTHER -> MagLess(b, a)

\* Number of bits of a limb.
BitLen(x) == CHOOSE n \in 0..16 : x < 2^n /\ (n = 0 \/ x >= 2^(n - 1))

RECURSIVE Carry(_, _)
Carry(s, i) ==
    IF i = 1 \/ s[i] < LimbBase
    THEN s
    ELSE Carry([s EXCEPT ![i] = @ - LimbBase, ![i - 1] = @ + 1], i - 1)

\* The float64 magnitude nearest to the unsigned word m (round to nearest,
\* ties to even, 53 bits of mantissa).
RoundMag(m) ==
    IF m[1] < 2^5
    THEN <<0, m[1], m[2], m[3], m[4]>>
    ELSE LET sh == BitLen(m[1]) - 5
             P == 2^sh
             q == m[4] \div P
             r == m[4] % P
             up == r > P \div 2 \/ (r = P \div 2 /\ q % 2 = 1)
             low == (q + (IF up THEN 1 ELSE 0)) * P
         IN Carry(<<0, m[1], m[2], m[3], low>>, 5)

\* float64(int64) and float64(uint64).
FloatOfInt64(w) == Flt(IsNeg(w), RoundMag(Mag64(w)), FALSE)

FloatOfUint64(w) == Flt(FALSE, RoundMag(w), FALSE)

(***************************************************************************)
(* Values.  A dynamically typed value (Go's any) is a record that carries  *)
(* its dynamic type.  Point is struct{X int; Y float64}, a comparable      *)
(* aggregate; []int is an aggregate that is not comparable; *int is a      *)
(* pointer, address 0 being the nil pointer; NilV is the untyped nil.      *)
(***************************************************************************)
IntV(T, w) == [type |-> T, word |-> w]

FloatV(T, f) == [type |-> T, flt |-> f]

StrV(s) == [type |-> "string", str |-> s]

BoolV(b) == [type |-> "bool", b |-> b]

PointV(x, y) == [type |-> "Point", X |-> x, Y |-> y]

SliceV(isNil, elems) == [type |-> "[]int", isNil |-> isNil, elems |-> elems]

PtrV(addr) == [type |-> "*int", addr |-> addr]

NilV == [type |-> "nil"]

SignedKinds == {"int", "int8", "int16", "int32", "int64"}

UnsignedKinds == {"uint", "uint8", "uint16", "uint32", "uint64", "uintptr"}

FloatKinds == {"float32", "float64"}

\* reflect.Value.Kind() of a value.
Kind(v) ==
    CASE v.type = "Point" -> "struct"
      [] v.type = "[]int" -> "slice"
      [] v.type = "*int" -> "ptr"
      [] v.type = "nil" -> "invalid"
      [] OTHER -> v.type

isSignedInteger(k) == k \in SignedKinds

isUnsignedInteger(k) == k \in UnsignedKinds

isInteger(k) == isSignedInteger(k) \/ isUnsignedInteger(k)

isFloat(k) == k \in FloatKinds

isNumeric(k) == isInteger(k) \/ isFloat(k)

\* reflect.Type.Comparable().
TypeComparable(T) == T # "[]int"

\* Go's == on two interface values of the same comparable aggregate or
\* pointer type: field by field for a struct, by address for a pointer.
InterfaceEq(a, b) ==
    CASE a.type = "Point" -> a.X = b.X /\ FloatEq(a.Y, b.Y)
      [] a.type = "*int" -> a.addr = b.addr
      [] OTHER -> a = b

\* reflect.DeepEqual on two values of the same slice type.
DeepEqual(a, b) == a.isNil = b.isNil /\ a.elems = b.elems

(***************************************************************************)
(* ConditionOperand (condition.go:17-27) and its String().                 *)
(***************************************************************************)
ConditionOperandInvalid == 0

ConditionEqual == 1

ConditionNotEqual == 2

ConditionGreaterThan == 3

ConditionLessThan == 4

ConditionGreaterThanOrEqual == 5

ConditionLessThanOrEqual == 6

OperandString(o) ==
    CASE o = ConditionEqual -> "=="
      [] o = ConditionNotEqual -> "!="
      [] o = ConditionGreaterThan -> ">"
      [] o = ConditionLessThan -> "<"
      [] o = ConditionGreaterThanOrEqual -> ">="
      [] o = ConditionLessThanOrEqual -> "<="
      [] o = ConditionOperandInvalid -> "Invalid"
      [] OTHER -> "Unknown"

(***************************************************************************)
(* The comparator.                                                         *)
(***************************************************************************)
\* Go's == and < at the ordered type T that compareOrdered is instantiated
\* at: int64, uint64, float64 or string.
OrdEq(T, l, r) == IF T = "float64" THEN FloatEq(l, r) ELSE l = r

OrdLt(T, l, r) ==
    CASE T = "int64" -> SLess(l, r)
      [] T = "uint64" -> ULess(l, r)
      [] T = "float64" -> FloatLt(l, r)
      [] OTHER -> LexLess(l, r)

\* compareOrdered with >= computed as >.
compareOrderedStrictGe(T, l, r, o) ==
    CASE o = ConditionEqual -> Ok(OrdEq(T, l, r))
      [] o = ConditionNotEqual -> Ok(~OrdEq(T, l, r))
      [] o = ConditionGreaterThan -> Ok(OrdLt(T, r, l))
      [] o = ConditionLessThan -> Ok(OrdLt(T, l, r))
      [] o = ConditionGreaterThanOrEqual -> Ok(OrdLt(T, r, l))
      [] o = ConditionLessThanOrEqual -> Ok(OrdLt(T, l, r) \/ OrdEq(T, l, r))
      [] OTHER -> Fail("ErrInvalidCondition", <<>>)

compareOrdered(T, l, r, o) ==
    CASE o = ConditionEqual -> Ok(OrdEq(T, l, r))
      [] o = ConditionNotEqual -> Ok(~OrdEq(T, l, r))
      [] o = ConditionGreaterThan -> Ok(OrdLt(T, r, l))
      [] o = ConditionLessThan -> Ok(OrdLt(T, l, r))
      [] o = ConditionGreaterThanOrEqual -> Ok(OrdLt(T, r, l) \/ OrdEq(T, l, r))
      [] o = ConditionLessThanOrEqual -> Ok(OrdLt(T, l, r) \/ OrdEq(T, l, r))
      [] OTHER -> Fail("ErrInvalidCondition", <<>>)

convertToSignedInt64(v) ==
    IF isSignedInteger(Kind(v))
    THEN [v |-> v.word, ok |-> TRUE]
    ELSE [v |-> Zero64, ok |-> FALSE]

convertToUnsignedUint64(v) ==
    IF isUnsignedInteger(Kind(v))
    THEN [v |-> v.word, ok |-> TRUE]
    ELSE [v |-> Zero64, ok |-> FALSE]

convertToFloat64(v) ==
    CASE isSignedInteger(Kind(v)) -> [v |-> FloatOfInt64(v.word), ok |-> TRUE]
      [] isUnsignedInteger(Kind(v)) -> [v |-> FloatOfUint64(v.word), ok |-> TRUE]
      [] isFloat(Kind(v)) -> [v |-> v.flt, ok |-> TRUE]
      [] OTHER -> [v |-> Flt(FALSE, <<0, 0, 0, 0, 0>>, FALSE), ok |-> FALSE]

\* compareMixedInt without the sign test: the negative s is cast to uint64.
compareMixedIntNaiveCast(s, u, o) == compareOrdered("uint64", s, u, o)

\* Signed s on the left, unsigned u on the right.
compareMixedInt(s, u, o) ==
    IF IsNeg(s)
    THEN CASE o = ConditionEqual -> Ok(FALSE)
           [] o = ConditionNotEqual -> Ok(TRUE)
           [] o = ConditionGreaterThan -> Ok(FALSE)
           [] o = ConditionLessThan -> Ok(TRUE)
           [] o = ConditionGreaterThanOrEqual -> Ok(FALSE)
           [] o = ConditionLessThanOrEqual -> Ok(TRUE)
           [] OTHER -> Fail("ErrInvalidCondition", <<OperandString(o)>>)
    ELSE compareOrdered("uint64", s, u, o)

\* compareMixedIntReversed with the non-negative case compared as int64,
\* the unsigned operand cast to signed.
compareMixedIntReversedSignedCast(u, s, o) ==
    IF IsNeg(s)
    THEN CASE o = ConditionEqual -> Ok(FALSE)
           [] o = ConditionNotEqual -> Ok(TRUE)
           [] o = ConditionGreaterThan -> Ok(TRUE)
           [] o = ConditionLessThan -> Ok(FALSE)
           [] o = ConditionGreaterThanOrEqual -> Ok(TRUE)
           [] o = ConditionLessThanOrEqual -> Ok(FALSE)
           [] OTHER -> Fail("ErrInvalidCondition", <<OperandString(o)>>)
    ELSE compareOrdered("int64", u, s, o)

\* Unsigned u on the left, signed s on the right.
compareMixedIntReversed(u, s, o) ==
    IF IsNeg(s)
    THEN CASE o = ConditionEqual -> Ok(FALSE)
           [] o = ConditionNotEqual -> Ok(TRUE)
           [] o = ConditionGreaterThan -> Ok(TRUE)
           [] o = ConditionLessThan -> Ok(FALSE)
           [] o = ConditionGreaterThanOrEqual -> Ok(TRUE)
           [] o = ConditionLessThanOrEqual -> Ok(FALSE)
           [] OTHER -> Fail("ErrInvalidCondition", <<OperandString(o)>>)
    ELSE compareOrdered("uint64", u, s, o)

\* compareBool with the results of == and != exchanged.
compareBoolSwapped(l, r, o) ==
    CASE o = ConditionEqual -> Ok(l # r)
      [] o = ConditionNotEqual -> Ok(l = r)
      [] OTHER -> Fail("ErrOperationNotSupported", <<OperandString(o)>>)

compareBool(l, r, o) ==
    CASE o = ConditionEqual -> Ok(l = r)
      [] o = ConditionNotEqual -> Ok(l # r)
      [] OTHER -> Fail("ErrOperationNotSupported", <<OperandString(o)>>)

\* Step 2 of compareValues: both operands have the same dynamic type.
compareIdentical(l, r, o) ==
    LET k == Kind(l)
    IN CASE isSignedInteger(k) -> compareOrdered("int64", l.word, r.word, o)
         [] isUnsignedInteger(k) -> compareOrdered("uint64", l.word, r.word, o)
         [] isFloat(k) -> compareOrdered("float64", l.flt, r.flt, o)
         [] k = "string" -> compareOrdered("string", l.str, r.str, o)
         [] k = "bool" -> compareBool(l.b, r.b, o)
         [] OTHER ->
              IF TypeComparable(l.type)
              THEN CASE o = ConditionEqual -> Ok(InterfaceEq(l, r))
                     [] o = ConditionNotEqual -> Ok(~InterfaceEq(l, r))
                     [] OTHER -> Fail("ErrOperationNotSupported",
                                      <<OperandString(o), l.type>>)
              ELSE CASE o = ConditionEqual -> Ok(DeepEqual(l, r))
                     [] o = ConditionNotEqual -> Ok(~DeepEqual(l, r))
                     [] OTHER -> Fail("ErrOperationNotSupported",
                                      <<l.type, OperandString(o)>>)

\* Step 3 of compareValues: both operands numeric, of different types.
compareNumeric(l, r, o) ==
    LET lIsSigned == isSignedInteger(Kind(l))
        rIsSigned == isSignedInteger(Kind(r))
        lIsUnsigned == isUnsignedInteger(Kind(l))
        rIsUnsigned == isUnsignedInteger(Kind(r))
        lFlt == convertToFloat64(l)
        rFlt == convertToFloat64(r)
    IN CASE lIsSigned /\ rIsSigned ->
              compareOrdered("int64", convertToSignedInt64(l).v,
                             convertToSignedInt64(r).v, o)
         [] lIsUnsigned /\ rIsUnsigned ->
              compareOrdered("uint64", convertToUnsignedUint64(l).v,
                             convertToUnsignedUint64(r).v, o)
         [] lIsSigned /\ rIsUnsigned ->
              compareMixedInt(convertToSignedInt64(l).v,
                              convertToUnsignedUint64(r).v, o)
         [] lIsUnsigned /\ rIsSigned ->
              compareMixedIntReversed(convertToUnsignedUint64(l).v,
                                      convertToSignedInt64(r).v, o)
         [] OTHER ->
              IF lFlt.ok /\ rFlt.ok
              THEN compareOrdered("float64", lFlt.v, rFlt.v, o)
              ELSE Fail("ErrComparisonFailed", <<l.type, r.type>>)

\* compareValues with the nil step entered only when both operands are nil.
compareValuesBothNil(l, r, o) ==
    LET lhsIsNil == l = NilV \/ (Kind(l) = "ptr" /\ l.addr = 0)
        rhsIsNil == r = NilV \/ (Kind(r) = "ptr" /\ r.addr = 0)
    IN IF lhsIsNil /\ rhsIsNil
       THEN CASE o = ConditionEqual -> Ok(lhsIsNil = rhsIsNil)
              [] o = ConditionNotEqual -> Ok(lhsIsNil # rhsIsNil)
              [] OTHER -> Fail("ErrOperationNotSupported", <<OperandString(o)>>)
       ELSE IF l.type = r.type
       THEN compareIdentical(l, r, o)
       ELSE IF isNumeric(Kind(l)) /\ isNumeric(Kind(r))
       THEN compareNumeric(l, r, o)
       ELSE Fail("ErrIncompatibleTypes", <<l.type, r.type, OperandString(o)>>)

compareValues(l, r, o) ==
    LET lhsIsNil == l = NilV \/ (Kind(l) = "ptr" /\ l.addr = 0)
        rhsIsNil == r = NilV \/ (Kind(r) = "ptr" /\ r.addr = 0)
    IN IF lhsIsNil \/ rhsIsNil
       THEN CASE o = ConditionEqual -> Ok(lhsIsNil = rhsIsNil)
              [] o = ConditionNotEqual -> Ok(lhsIsNil # rhsIsNil)
              [] OTHER -> Fail("ErrOperationNotSupported", <<OperandString(o)>>)
       ELSE IF l.type = r.type
       THEN compareIdentical(l, r, o)
       ELSE IF isNumeric(Kind(l)) /\ isNumeric(Kind(r))
       THEN compareNumeric(l, r, o)
       ELSE Fail("ErrIncompatibleTypes", <<l.type, r.type, OperandString(o)>>)

(***************************************************************************)
(* PipelineContext (context.go).  The struct holds a reference to a Go     *)
(* map; copies of the struct share the map.  NilRef is the nil map.        *)
(***************************************************************************)
NilRef == 0

\* The contents of the map at reference r (a nil map reads as empty).
MapAt(h, r) == IF r = NilRef THEN <<>> ELSE h[r]

GetValue(h, p, k) ==
    IF k \in DOMAIN MapAt(h, p.values)
    THEN [v |-> MapAt(h, p.values)[k], found |-> TRUE]
    ELSE [v |-> NilV, found |-> FALSE]

\* SetValue: the heap after the call, what it returned, and whether it
\* panicked (an assignment to an entry of a nil map).
SetValue(h, p, k, v) ==
    IF p.values = NilRef
    THEN [heap |-> h, old |-> NilV, had |-> FALSE, panic |-> TRUE]
    ELSE [heap |-> [h EXCEPT ![p.values] = (k :> v) @@ @],
          old |-> GetValue(h, p, k).v,
          had |-> GetValue(h, p, k).found,
          panic |-> FALSE]

\* Clone returning a struct that shares the map of the original.
CloneShared(h, p) == [heap |-> h, ctx |-> p]

\* Clone: maps.Clone allocates a new map with the same entries (and
\* returns nil for a nil map).
Clone(h, p) ==
    IF p.values = NilRef
    THEN [heap |-> h, ctx |-> [values |-> NilRef]]
    ELSE [heap |-> Append(h, h[p.values]), ctx |-> [values |-> Len(h) + 1]]

\* A call made on a PipelineContext: the method, the context it was made on
\* ("c" the original, "c2" the clone), its arguments, whether it panicked.
Op(name, on, k, v, panic) ==
    [name |-> name, on |-> on, k |-> k, v |-> v, panic |-> panic]

NoOp == Op("none", "c", "", NilV, FALSE)

(***************************************************************************)
(* ValueGetter (pipedream.go).                                             *)
(***************************************************************************)
NilGetter == [g |-> "nil"]

DefaultValueGetter == [g |-> "default"]

StaticValueGetter(v) == [g |-> "static", Value |-> v]

\* A (any, error) result.
Got(v) == [v |-> v, err |-> NoErr]

NotGot(sentinel) == [v |-> NilV, err |-> Err(sentinel, <<>>)]

\* The int variable a non-nil *int points to.
Elem(v) == IntV("int", FromInt(v.addr))

\* reflect's conversion of a float64 in the range of int to int.
IntOfFloat(f) ==
    LET m == <<f.mag[2], f.mag[3], f.mag[4], f.mag[5]>>
    IN IF f.neg /\ m # Zero64 THEN Mag64(m) ELSE m

\* key.Convert(int) for a key of a numeric kind.
IndexOfKey(key) == IF isFloat(Kind(key)) THEN IntOfFloat(key.flt) ELSE key.word

\* string(rune) of an integer key: one byte below 128, and otherwise a
\* string of several bytes (here the encoding of U+FFFD).
RuneString(w) ==
    IF w[1] = 0 /\ w[2] = 0 /\ w[3] = 0 /\ w[4] < 128
    THEN <<w[4]>>
    ELSE <<239, 191, 189>>

\* The exported fields of Point, by name ("X", "Y").
FieldByName(v, name) ==
    CASE name = <<88>> -> Got(IntV("int", v.X))
      [] name = <<89>> -> Got(FloatV("float64", v.Y))
      [] OTHER -> NotGot("ErrValueNotFound")

RECURSIVE getValueFromReflectValue(_, _)
getValueFromReflectValue(v, key) ==
    CASE Kind(v) = "bool" \/ isNumeric(Kind(v)) \/ Kind(v) = "string" -> Got(v)
      [] Kind(v) = "slice" ->
           IF ~isNumeric(Kind(key))
           THEN NotGot("ErrKeyTypeInvalid")
           ELSE LET i == IndexOfKey(key)
                IN IF IsNeg(i) \/ ~SLess(i, FromInt(Len(v.elems)))
                   THEN NotGot("ErrValueNotFound")
                   ELSE Got(IntV("int", v.elems[i[4] + 1]))
      [] Kind(v) = "ptr" ->
           IF v.addr = 0
           THEN NotGot("ErrInputIsNil")
           ELSE getValueFromReflectValue(Elem(v), key)
      [] Kind(v) = "struct" ->
           IF Kind(key) = "string"
           THEN FieldByName(v, key.str)
           ELSE IF isInteger(Kind(key))
           THEN FieldByName(v, RuneString(key.word))
           ELSE NotGot("ErrKeyTypeInvalid")
      [] OTHER -> NotGot("ErrImproperValueKind")

DefaultGetValue(input, valueKey) ==
    IF input = NilV
    THEN NotGot("ErrInputIsNil")
    ELSE IF valueKey = NilV
    THEN NotGot("ErrKeyIsEmpty")
    ELSE getValueFromReflectValue(input, valueKey)

StaticGetValue(g, input, valueKey) == Got(g.Value)

\* Dynamic dispatch of ValueGetter.GetValue.
GetterGetValue(g, input, valueKey) ==
    IF g.g = "static"
    THEN StaticGetValue(g, input, valueKey)
    ELSE DefaultGetValue(input, valueKey)

(***************************************************************************)
(* ValueBuilder (LiteralValue, DynamicValue).                              *)
(***************************************************************************)
NilBuilder == [b |-> "nil"]

LiteralValue(v) == [b |-> "literal", Value |-> v]

DynamicValue(contextKey, getter, key) ==
    [b |-> "dynamic", ContextKey |-> contextKey, Getter |-> getter, Key |-> key]

LiteralBuild(l, h, p) == Got(l.Value)

\* DynamicValue.Build with a stored nil taken as no entry.
DynamicBuildNilAbsent(dv, h, p) ==
    IF dv.ContextKey = ""
    THEN NotGot("ErrNoContextKeyProvided")
    ELSE IF ~GetValue(h, p, dv.ContextKey).found
            \/ GetValue(h, p, dv.ContextKey).v = NilV
    THEN NotGot("ErrValueNotFoundInContext")
    ELSE IF dv.Getter # NilGetter
    THEN GetterGetValue(dv.Getter, GetValue(h, p, dv.ContextKey).v, dv.Key)
    ELSE Got(GetValue(h, p, dv.ContextKey).v)

DynamicBuild(dv, h, p) ==
    IF dv.ContextKey = ""
    THEN NotGot("ErrNoContextKeyProvided")
    ELSE IF ~GetValue(h, p, dv.ContextKey).found
    THEN NotGot("ErrValueNotFoundInContext")
    ELSE IF dv.Getter # NilGetter
    THEN GetterGetValue(dv.Getter, GetValue(h, p, dv.ContextKey).v, dv.Key)
    ELSE Got(GetValue(h, p, dv.ContextKey).v)

\* Dynamic dispatch of ValueBuilder.Build on a builder that is not nil.
Build(b, h, p) ==
    IF b.b = "literal" THEN LiteralBuild(b, h, p) ELSE DynamicBuild(b, h, p)

(***************************************************************************)
(* Conditions.  A condition is evaluated at a path, its place in the tree  *)
(* (the sequence of child indices from the root), and returns with its     *)
(* (bool, error) the calls made on the way, in order: every Evaluate of a  *)
(* condition and every Build of a builder.                                 *)
(***************************************************************************)
NilCondition == [c |-> "nil"]

\* An implementation of the Condition interface with a fixed outcome.
FixedCondition(val, err) == [c |-> "fixed", val |-> val, err |-> err]

ValueCondition(l, r, o) == [c |-> "value", LHS |-> l, RHS |-> r, Operand |-> o]

AndCondition(cs) == [c |-> "and", Conditions |-> cs]

OrCondition(cs) == [c |-> "or", Conditions |-> cs]

Returned(val, err, calls) == [val |-> val, err |-> err, calls |-> calls]

NoEval == Returned(FALSE, Err("unset", <<>>), <<>>)

\* "evaluating LHS: %w" and "evaluating RHS: %w".
WrapSide(side, e) == Err(e.is, <<side>> \o e.args)

\* ValueCondition.Evaluate without the test of the operand before the builds.
ValueConditionEvaluateOperandUnchecked(c, h, p, path) ==
    LET l == Build(c.LHS, h, p)
        r == Build(c.RHS, h, p)
        res == compareValues(l.v, r.v, c.Operand)
        buildL == <<<<"Build", path, "LHS">>>>
        buildR == <<<<"Build", path, "RHS">>>>
    IN IF c.LHS = NilBuilder \/ c.RHS = NilBuilder
       THEN Returned(FALSE, Err("ErrInvalidCondition", <<>>), <<>>)
       ELSE IF l.err # NoErr
       THEN Returned(FALSE, WrapSide("LHS", l.err), buildL)
       ELSE IF r.err # NoErr
       THEN Returned(FALSE, WrapSide("RHS", r.err), buildL \o buildR)
       ELSE Returned(res.val, res.err, buildL \o buildR)

ValueConditionEvaluate(c, h, p, path) ==
    LET l == Build(c.LHS, h, p)
        r == Build(c.RHS, h, p)
        res == compareValues(l.v, r.v, c.Operand)
        buildL == <<<<"Build", path, "LHS">>>>
        buildR == <<<<"Build", path, "RHS">>>>
    IN IF c.LHS = NilBuilder \/ c.RHS = NilBuilder
          \/ c.Operand = ConditionOperandInvalid
       THEN Returned(FALSE, Err("ErrInvalidCondition", <<>>), <<>>)
       ELSE IF l.err # NoErr
       THEN Returned(FALSE, WrapSide("LHS", l.err), buildL)
       ELSE IF r.err # NoErr
       THEN Returned(FALSE, WrapSide("RHS", r.err), buildL \o buildR)
       ELSE Returned(res.val, res.err, buildL \o buildR)

RECURSIVE Evaluate(_, _, _, _)
RECURSIVE AndLoop(_, _, _, _, _, _)
RECURSIVE OrLoop(_, _, _, _, _, _)

\* The loop of AndCondition.Evaluate from child i on, calls made so far.
AndLoop(c, h, p, path, i, calls) ==
    IF i > Len(c.Conditions)
    THEN Returned(TRUE, NoErr, calls)
    ELSE IF c.Conditions[i] = NilCondition
    THEN Returned(FALSE, Err("ErrNilCondition", <<>>), calls)
    ELSE LET r == Evaluate(c.Conditions[i], h, p, Append(path, i))
         IN IF r.err # NoErr
            THEN Returned(FALSE, r.err, calls \o r.calls)
            ELSE IF ~r.val
            THEN Returned(FALSE, NoErr, calls \o r.calls)
            ELSE AndLoop(c, h, p, path, i + 1, calls \o r.calls)

\* AndCondition.Evaluate with the empty conjunction taken as false.
AndConditionEvaluateEmptyFalse(c, h, p, path) ==
    IF Len(c.Conditions) = 0
    THEN Returned(FALSE, NoErr, <<>>)
    ELSE AndLoop(c, h, p, path, 1, <<>>)

AndConditionEvaluate(c, h, p, path) ==
    IF Len(c.Conditions) = 0
    THEN Returned(TRUE, NoErr, <<>>)
    ELSE AndLoop(c, h, p, path, 1, <<>>)

\* The loop of OrCondition.Evaluate without the short circuit: a true child
\* is remembered (in the sign of i) and the later children are evaluated.
OrLoopNoShortCircuit(c, h, p, path, i, calls) ==
    LET n == IF i < 0 THEN -i ELSE i
    IN IF n > Len(c.Conditions)
       THEN Returned(i < 0, NoErr, calls)
       ELSE IF c.Conditions[n] = NilCondition
       THEN Returned(FALSE, Err("ErrNilCondition", <<>>), calls)
       ELSE LET r == Evaluate(c.Conditions[n], h, p, Append(path, n))
            IN IF r.err # NoErr
               THEN Returned(FALSE, r.err, calls \o r.calls)
               ELSE OrLoop(c, h, p, path,
                           IF r.val \/ i < 0 THEN -(n + 1) ELSE n + 1,
                           calls \o r.calls)

\* The loop of OrCondition.Evaluate from child i on, calls made so far.
OrLoop(c, h, p, path, i, calls) ==
    IF i > Len(c.Conditions)
    THEN Returned(FALSE, NoErr, calls)
    ELSE IF c.Conditions[i] = NilCondition
    THEN Returned(FALSE, Err("ErrNilCondition", <<>>), calls)
    ELSE LET r == Evaluate(c.Conditions[i], h, p, Append(path, i))
         IN IF r.err # NoErr
            THEN Returned(FALSE, r.err, calls \o r.calls)
            ELSE IF r.val
            THEN Returned(TRUE, NoErr, calls \o r.calls)
            ELSE OrLoop(c, h, p, path, i + 1, calls \o r.calls)

OrConditionEvaluate(c, h, p, path) ==
    IF Len(c.Conditions) = 0
    THEN Returned(FALSE, NoErr, <<>>)
    ELSE OrLoop(c, h, p, path, 1, <<>>)

\* Dynamic dispatch of Condition.Evaluate on a condition that is not nil;
\* the call itself is the first of the calls.
Evaluate(c, h, p, path) ==
    LET r == CASE c.c = "value" -> ValueConditionEvaluate(c, h, p, path)
               [] c.c = "and" -> AndConditionEvaluate(c, h, p, path)
               [] c.c = "or" -> OrConditionEvaluate(c, h, p, path)
               [] OTHER -> Returned(c.val, c.err, <<>>)
    IN Returned(r.val, r.err, <<<<"Evaluate", path>>>> \o r.calls)

(***************************************************************************)
(* Data sources and their registry (data_source.go).                       *)
(***************************************************************************)
\* A data source: its name, its parameter type, and what its getter
\* returns when called.
DataSource(name, paramType, resp, err) ==
    [Name |-> name, paramType |-> paramType, resp |-> resp, err |-> err]

\* E.GetDataSource(name): the data source registered under the name, if any.
GetDataSource(reg, name) ==
    IF name \in DOMAIN reg
    THEN [ds |-> reg[name], found |-> TRUE]
    ELSE [ds |-> DataSource("", "", NilV, NoErr), found |-> FALSE]

\* The registry after RegisterDataSource(source).
Register(reg, source) == (source.Name :> source) @@ reg

\* dataSource.Query(params), the data source contract: params that do not
\* convert to the parameter type fail before the getter is called.  The
\* parameter types and params of this model convert exactly when the types
\* are the same.
DataSourceQuery(d, params) ==
    IF params.type # d.paramType
    THEN [v |-> NilV, err |-> Err("ErrParamTypeDoesNotMatch", <<>>),
          invoked |-> FALSE]
    ELSE [v |-> d.resp, err |-> d.err, invoked |-> TRUE]

(***************************************************************************)
(* Nodes and pipelines (pipeline.go, nodes).                               *)
(***************************************************************************)
QueryNode(name, params, saveTo) ==
    [n |-> "query", DataSourceName |-> name, Params |-> params,
     SaveToName |-> saveTo]

BranchNode(c, t, f, clone) ==
    [n |-> "branch", Condition |-> c, TruePipeline |-> t, FalsePipeline |-> f,
     CloneContext |-> clone]

ReturnNode(b) == [n |-> "return", ValueBuilder |-> b]

Pipeline(nodes) == [isNil |-> FALSE, Nodes |-> nodes]

\* The nil *Pipeline.
NilPipeline == [isNil |-> TRUE, Nodes |-> <<>>]

\* What QueryNode.Execute leaves: the heap, the error returned, the queries
\* made, and whether it panicked instead of returning.
Executed(h, err, queries, panic) ==
    [heap |-> h, err |-> err, queries |-> queries, panic |-> panic]

\* "failed to ... %s: %w": the wrapped error, naming the data source.
WrapQuery(name, e) == Err(e.is, <<name>> \o e.args)

\* QueryNode.Execute without the test of found: the zero DataSource that a
\* failed lookup returns is queried.
QueryNodeExecuteUnchecked(q, h, p, reg) ==
    LET params == Build(q.Params, h, p)
        source == GetDataSource(reg, q.DataSourceName)
        result == DataSourceQuery(source.ds, params.v)
        query == <<[name |-> q.DataSourceName, params |-> params.v]>>
        set == SetValue(h, p, q.SaveToName, result.v)
    IN IF q.Params = NilBuilder
       THEN Executed(h, NoErr, <<>>, TRUE)
       ELSE IF params.err # NoErr
       THEN Executed(h, WrapQuery(q.DataSourceName, params.err), <<>>, FALSE)
       ELSE IF result.err # NoErr
       THEN Executed(h, WrapQuery(q.DataSourceName, result.err),
                     IF result.invoked THEN query ELSE <<>>, FALSE)
       ELSE Executed(set.heap, NoErr, query, set.panic)

QueryNodeExecute(q, h, p, reg) ==
    LET params == Build(q.Params, h, p)
        source == GetDataSource(reg, q.DataSourceName)
        result == DataSourceQuery(source.ds, params.v)
        query == <<[name |-> q.DataSourceName, params |-> params.v]>>
        set == SetValue(h, p, q.SaveToName, result.v)
    IN IF q.Params = NilBuilder
       THEN Executed(h, NoErr, <<>>, TRUE)
       ELSE IF params.err # NoErr
       THEN Executed(h, WrapQuery(q.DataSourceName, params.err), <<>>, FALSE)
       ELSE IF ~source.found
       THEN Executed(h, Err("ErrDataSourceNotFound", <<q.DataSourceName>>),
                     <<>>, FALSE)
       ELSE IF result.err # NoErr
       THEN Executed(h, WrapQuery(q.DataSourceName, result.err),
                     IF result.invoked THEN query ELSE <<>>, FALSE)
       ELSE Executed(set.heap, NoErr, query, set.panic)

\* PipelineExecutor.Execute: the (any, error) it returns.
ExecutorExecute(pl) == Got(NilV)

\* The executor's variables before anything was registered or executed.
NoNode == QueryNode("", NilBuilder, "")

NoExec == [v |-> NilV, err |-> Err("unset", <<>>)]

NoNodeRes == [err |-> Err("unset", <<>>), panic |-> FALSE]

PipelineIdle ==
    /\ dataSources = <<>>
    /\ pipeline = Pipeline(<<>>)
    /\ node = NoNode
    /\ called = <<>>
    /\ execRes = NoExec
    /\ nodeRes = NoNodeRes

NoGot == [v |-> NilV, err |-> Err("unset", <<>>)]

BuilderIdle ==
    /\ valueGetter = NilGetter
    /\ getInput = NilV
    /\ getKey = NilV
    /\ got = NoGot
    /\ builder = NilBuilder
    /\ built = NoGot

(***************************************************************************)
(* Node execution as the design describes it (sequential execution of the  *)
(* nodes, branching, early termination), against which the executor is     *)
(* compared.                                                               *)
(***************************************************************************)
\* The outcome of running a sequence of nodes: "completed" (the end was
\* reached), "returned" (a Return node gave v), "error" or "panic".
Ran(h, status, v, err, queries) ==
    [heap |-> h, status |-> status, v |-> v, err |-> err, queries |-> queries]

RECURSIVE RunNodes(_, _, _, _, _, _)
RunNodes(nodes, i, h, p, reg, queries) ==
    IF i > Len(nodes)
    THEN Ran(h, "completed", NilV, NoErr, queries)
    ELSE LET nd == nodes[i]
             q == QueryNodeExecute(nd, h, p, reg)
             b == Build(nd.ValueBuilder, h, p)
             c == Evaluate(nd.Condition, h, p, <<>>)
             chosen == IF c.val THEN nd.TruePipeline ELSE nd.FalsePipeline
             cl == Clone(h, p)
             sub == IF nd.CloneContext
                    THEN RunNodes(chosen.Nodes, 1, cl.heap, cl.ctx, reg, queries)
                    ELSE RunNodes(chosen.Nodes, 1, h, p, reg, queries)
         IN CASE nd.n = "query" ->
                   IF q.panic
                   THEN Ran(q.heap, "panic", NilV, NoErr, queries \o q.queries)
                   ELSE IF q.err # NoErr
                   THEN Ran(q.heap, "error", NilV, q.err, queries \o q.queries)
                   ELSE RunNodes(nodes, i + 1, q.heap, p, reg, queries \o q.queries)
              [] nd.n = "return" ->
                   IF b.err # NoErr
                   THEN Ran(h, "error", NilV, b.err, queries)
                   ELSE Ran(h, "returned", b.v, NoErr, queries)
              [] OTHER ->
                   IF c.err # NoErr
                   THEN Ran(h, "error", NilV, c.err, queries)
                   ELSE IF chosen.isNil
                   THEN Ran(h, "error", NilV, Err("ErrTerminatedEarly", <<>>), queries)
                   ELSE IF sub.status # "completed"
                   THEN sub
                   ELSE RunNodes(nodes, i + 1, sub.heap, p, reg, sub.queries)

\* A run of the nodes in a fresh, empty context.
RunPipeline(nodes, reg) == RunNodes(nodes, 1, <<<<>>>>, [values |-> 1], reg, <<>>)

(***************************************************************************)
(* Inputs of the comparator.                                               *)
(***************************************************************************)
\* 2^53 + 1, the first integer float64 cannot hold.
Pow53Plus1 == <<2^5, 0, 0, 1>>

SignedValues ==
    {IntV("int8", FromInt(n)) : n \in {-128, -1, 0, 127}}
    \cup {IntV("int16", FromInt(n)) : n \in {-32768, -1, 32767}}
    \cup {IntV("int32", w) :
            w \in {<<LimbMax, LimbMax, 2^15, 0>>, FromInt(-1), FromInt(2147483647)}}
    \cup {IntV("int64", w) : w \in {MinInt64, FromInt(-1), Zero64, One64, MaxInt64}}
    \cup {IntV("int", w) : w \in {FromInt(-1), Zero64, Pow53Plus1}}

UnsignedValues ==
    {IntV("uint8", FromInt(n)) : n \in {0, 255}}
    \cup {IntV("uint16", FromInt(65535))}
    \cup {IntV("uint32", <<0, 0, LimbMax, LimbMax>>)}
    \cup {IntV("uint64", w) :
            w \in {Zero64, One64, MaxInt64, MinInt64, Pow53Plus1, MaxUint64}}
    \cup {IntV("uint", w) : w \in {One64, MaxUint64}}
    \cup {IntV("uintptr", One64)}

FloatValues ==
    {FloatV("float64", f) :
        f \in {NaN,
               Flt(TRUE, <<0, 0, 0, 0, 1>>, TRUE),
               Flt(TRUE, <<0, 0, 0, 0, 0>>, FALSE),
               Flt(FALSE, <<0, 0, 0, 0, 0>>, FALSE),
               Flt(FALSE, <<0, 0, 0, 0, 1>>, FALSE),
               Flt(FALSE, <<0, 2^5, 0, 0, 0>>, FALSE),
               Flt(FALSE, <<0, 2^15, 0, 0, 0>>, FALSE),
               Flt(FALSE, <<1, 0, 0, 0, 0>>, FALSE)}}
    \cup {FloatV("float32", f) :
        f \in {NaN,
               Flt(FALSE, <<0, 0, 0, 0, 1>>, FALSE),
               Flt(FALSE, <<0, 0, 0, 0, 0>>, TRUE)}}

OtherValues ==
    {BoolV(TRUE), BoolV(FALSE)}
    \cup {StrV(<<>>), StrV(<<97>>), StrV(<<97, 98>>), StrV(<<98>>)}
    \cup {PointV(Zero64, Flt(FALSE, <<0, 0, 0, 0, 0>>, FALSE)),
          PointV(Zero64, Flt(TRUE, <<0, 0, 0, 0, 0>>, FALSE)),
          PointV(One64, NaN)}
    \cup {SliceV(TRUE, <<>>), SliceV(FALSE, <<>>), SliceV(FALSE, <<One64>>)}
    \cup {PtrV(0), PtrV(1), PtrV(2)}
    \cup {NilV}

Values == SignedValues \cup UnsignedValues \cup FloatValues \cup OtherValues

\* The six valid operands, the invalid one, and one out of range.
ValidOperands == ConditionEqual..ConditionLessThanOrEqual

Operands == ConditionOperandInvalid..(ConditionLessThanOrEqual + 1)

NoResult == [val |-> FALSE, err |-> Err("unset", <<>>)]

(***************************************************************************)
(* SpecCompare: compareValues applied to every pair of inputs.             *)
(***************************************************************************)
InitCompare ==
    /\ pc = "compare"
    /\ lhs \in Values
    /\ rhs \in Values
    /\ op \in Operands
    /\ cmpRes = NoResult
    /\ heap = <<>>
    /\ pctx = [values |-> NilRef]
    /\ pctx2 = [values |-> NilRef]
    /\ lastOp = NoOp
    /\ cond = NilCondition
    /\ evalRes = NoEval
    /\ PipelineIdle
    /\ BuilderIdle

Compare ==
    /\ pc = "compare"
    /\ cmpRes' = compareValues(lhs, rhs, op)
    /\ pc' = "compared"
    /\ UNCHANGED <<lhs, rhs, op, contextVars, conditionVars, pipelineVars, builderVars>>

NextCompare == Compare

SpecCompare == InitCompare /\ [][NextCompare]_vars

(***************************************************************************)
(* Claims about the comparator.                                            *)
(***************************************************************************)
IsSignedValue(v) == isSignedInteger(Kind(v))

IsUnsignedValue(v) == isUnsignedInteger(Kind(v))

\* C1: for a negative signed s and any unsigned u, compare(s, u, op) and
\* compare(u, s, op) succeed for the six valid operands with the results of
\* the mathematical order: s is unequal to and less than u, whatever the
\* magnitude of u.
C1_NegativeSignedBelowUnsigned ==
    (pc = "compared" /\ op \in ValidOperands) =>
        /\ (IsSignedValue(lhs) /\ IsNeg(lhs.word) /\ IsUnsignedValue(rhs)) =>
              cmpRes = Ok(op \in {ConditionNotEqual, ConditionLessThan,
                                  ConditionLessThanOrEqual})
        /\ (IsUnsignedValue(lhs) /\ IsSignedValue(rhs) /\ IsNeg(rhs.word)) =>
              cmpRes = Ok(op \in {ConditionNotEqual, ConditionGreaterThan,
                                  ConditionGreaterThanOrEqual})

\* int32(-1) < uint64(2^64 - 1) has been compared and is true.
C1_Witness ==
    /\ pc = "compared"
    /\ lhs = IntV("int32", FromInt(-1))
    /\ rhs = IntV("uint64", MaxUint64)
    /\ op = ConditionLessThan
    /\ cmpRes = Ok(TRUE)

\* The operand that the claim pairs with o.
negate(o) ==
    CASE o = ConditionEqual -> ConditionNotEqual
      [] o = ConditionNotEqual -> ConditionEqual
      [] o = ConditionGreaterThan -> ConditionLessThanOrEqual
      [] o = ConditionLessThanOrEqual -> ConditionGreaterThan
      [] o = ConditionLessThan -> ConditionGreaterThanOrEqual
      [] o = ConditionGreaterThanOrEqual -> ConditionLessThan
      [] OTHER -> o

\* compare(lhs, rhs, negate(op)) fails exactly when compare(lhs, rhs, op)
\* failed and otherwise returns the negation of its result.
NegationHolds ==
    LET n == compareValues(lhs, rhs, negate(op))
    IN /\ (cmpRes.err = NoErr) = (n.err = NoErr)
       /\ cmpRes.err = NoErr => n.val = ~cmpRes.val

IsNaNValue(v) == isFloat(Kind(v)) /\ v.flt.nan

IsOrderingOperand(o) == o \in ConditionGreaterThan..ConditionLessThanOrEqual

\* C2 as stated: for every pair of values and every valid operand,
\* compare with the negated operand succeeds exactly when compare succeeds
\* and then returns the logical negation.
C2_NegationAllValues ==
    (pc = "compared" /\ op \in ValidOperands) => NegationHolds

\* C2, amended: the same, except for an ordering operand with a floating
\* point NaN as one of the operands.
C2_NegationExceptNaNOrdering ==
    (/\ pc = "compared"
     /\ op \in ValidOperands
     /\ ~(IsOrderingOperand(op) /\ (IsNaNValue(lhs) \/ IsNaNValue(rhs)))) =>
        NegationHolds

\* "a" < "ab" is true and "a" >= "ab" is false.
C2_Witness ==
    /\ pc = "compared"
    /\ lhs = StrV(<<97>>)
    /\ rhs = StrV(<<97, 98>>)
    /\ op = ConditionLessThan
    /\ cmpRes = Ok(TRUE)
    /\ compareValues(lhs, rhs, ConditionGreaterThanOrEqual) = Ok(FALSE)

\* The kinds the reflexivity claim lists: boolean, the integer kinds,
\* string, comparable aggregate (with pointers), and nil.
IsReflexivityKind(v) ==
    \/ Kind(v) \in {"bool", "string", "struct", "ptr", "invalid"}
    \/ isInteger(Kind(v))

\* A floating point NaN inside an aggregate.
HoldsNaN(v) == Kind(v) = "struct" /\ v.Y.nan

ReflexiveResult ==
    /\ op = ConditionEqual => cmpRes = Ok(TRUE)
    /\ op = ConditionNotEqual => cmpRes = Ok(FALSE)

\* C3 as stated: compare(v, v, Equal) is (true, nil) and
\* compare(v, v, NotEqual) is (false, nil) for every value v of the listed
\* kinds.
C3_ReflexiveAllListedKinds ==
    (pc = "compared" /\ lhs = rhs /\ IsReflexivityKind(lhs)) => ReflexiveResult

\* C3, amended: the same for every such v that holds no floating point NaN.
C3_ReflexiveWithoutNaN ==
    (pc = "compared" /\ lhs = rhs /\ IsReflexivityKind(lhs) /\ ~HoldsNaN(lhs)) =>
        ReflexiveResult

\* A struct without NaN has been compared with itself for equality.
C3_Witness ==
    /\ pc = "compared"
    /\ lhs = PointV(Zero64, Flt(FALSE, <<0, 0, 0, 0, 0>>, FALSE))
    /\ rhs = lhs
    /\ op = ConditionEqual
    /\ cmpRes = Ok(TRUE)

IsNilOperand(v) == v = NilV \/ v = PtrV(0)

\* C12: with at least one nil operand, Equal is true exactly when both are
\* nil, NotEqual is true exactly when one is, both without error, and each
\* of the four ordering operands fails with OperationNotSupported, whatever
\* the other operand is.
C12_NilHandling ==
    (/\ pc = "compared"
     /\ op \in ValidOperands
     /\ IsNilOperand(lhs) \/ IsNilOperand(rhs)) =>
        /\ op = ConditionEqual =>
              cmpRes = Ok(IsNilOperand(lhs) /\ IsNilOperand(rhs))
        /\ op = ConditionNotEqual =>
              cmpRes = Ok(~(IsNilOperand(lhs) /\ IsNilOperand(rhs)))
        /\ IsOrderingOperand(op) =>
              /\ cmpRes.val = FALSE
              /\ cmpRes.err.is = "ErrOperationNotSupported"

\* nil has been compared with the string "a" by <= and was refused.
C12_Witness ==
    /\ pc = "compared"
    /\ lhs = NilV
    /\ rhs = StrV(<<97>>)
    /\ op = ConditionLessThanOrEqual
    /\ cmpRes.err.is = "ErrOperationNotSupported"

\* The order of the mathematical integers that two integer values denote:
\* a signed word with the top bit set is negative and below every
\* non-negative value; two values of the same sign are ordered as their
\* words are.
MathIsNeg(v) == IsSignedValue(v) /\ IsNeg(v.word)

MathEq(a, b) == MathIsNeg(a) = MathIsNeg(b) /\ a.word = b.word

MathLt(a, b) ==
    \/ MathIsNeg(a) /\ ~MathIsNeg(b)
    \/ MathIsNeg(a) = MathIsNeg(b) /\ LexLess(a.word, b.word)

MathCompare(a, b, o) ==
    CASE o = ConditionEqual -> MathEq(a, b)
      [] o = ConditionNotEqual -> ~MathEq(a, b)
      [] o = ConditionGreaterThan -> MathLt(b, a)
      [] o = ConditionLessThan -> MathLt(a, b)
      [] o = ConditionGreaterThanOrEqual -> ~MathLt(a, b)
      [] o = ConditionLessThanOrEqual -> ~MathLt(b, a)

\* C13: for two integer values of any signed or unsigned kinds and each of
\* the six valid operands, compare returns without error what the operand
\* gives on the two values as mathematical integers.
C13_IntegersComparedMathematically ==
    (/\ pc = "compared"
     /\ op \in ValidOperands
     /\ isInteger(Kind(lhs))
     /\ isInteger(Kind(rhs))) =>
        cmpRes = Ok(MathCompare(lhs, rhs, op))

\* uint64(2^63), above the signed maximum, is greater than int64(2^63 - 1).
C13_Witness ==
    /\ pc = "compared"
    /\ lhs = IntV("uint64", MinInt64)
    /\ rhs = IntV("int64", MaxInt64)
    /\ op = ConditionGreaterThan
    /\ cmpRes = Ok(TRUE)

(***************************************************************************)
(* Inputs of the condition tree.                                           *)
(***************************************************************************)
MaxChildren == 3

\* All sequences over S of length at most n.
SeqsUpTo(S, n) == UNION {[1..k -> S] : k \in 0..n}

Five == IntV("int", FromInt(5))

Three == IntV("int", FromInt(3))

FixedTrue == FixedCondition(TRUE, NoErr)

FixedFalse == FixedCondition(FALSE, NoErr)

FixedError == FixedCondition(FALSE, Err("ErrCustom", <<>>))

LeafConditions == {FixedTrue, FixedFalse, FixedError, NilCondition}

Builders ==
    {NilBuilder,
     LiteralValue(Three),
     LiteralValue(StrV(<<97>>)),
     DynamicValue("x", NilGetter, NilV),
     DynamicValue("missing", NilGetter, NilV),
     DynamicValue("", NilGetter, NilV),
     DynamicValue("x", StaticValueGetter(Three), NilV),
     DynamicValue("n", DefaultValueGetter, StrV(<<88>>)),
     DynamicValue("p", DefaultValueGetter, StrV(<<88>>))}

ValueConditions ==
    {ValueCondition(l, r, o) : l \in Builders, r \in Builders, o \in Operands}

\* The children of a combinator: the leaves, combinators that return true,
\* false or an error with and without a call of their own, and two
\* comparisons (x > 3, and one whose LHS is not in the context).
ChildConditions ==
    LeafConditions
    \cup {AndCondition(<<FixedTrue>>), AndCondition(<<NilCondition>>),
          OrCondition(<<>>), OrCondition(<<FixedFalse>>),
          OrCondition(<<FixedError>>)}
    \cup {ValueCondition(DynamicValue("x", NilGetter, NilV), LiteralValue(Three),
                         ConditionGreaterThan),
          ValueCondition(DynamicValue("missing", NilGetter, NilV),
                         LiteralValue(Three), ConditionEqual)}

Conditions ==
    ValueConditions
    \cup {AndCondition(cs) : cs \in SeqsUpTo(ChildConditions, MaxChildren)}
    \cup {OrCondition(cs) : cs \in SeqsUpTo(ChildConditions, MaxChildren)}

\* The context {"x": 5, "n": nil, "p": Point{1, 0.5}}.
SampleMap ==
    [k \in {"x", "n", "p"} |->
        CASE k = "x" -> Five
          [] k = "n" -> NilV
          [] OTHER -> PointV(One64, Flt(FALSE, <<0, 0, 0, 0, 0>>, TRUE))]

(***************************************************************************)
(* SpecCondition: Evaluate applied to every condition of Conditions, in    *)
(* the sample context and in a context whose map is nil.                   *)
(***************************************************************************)
InitCondition ==
    /\ pc = "evaluate"
    /\ cond \in Conditions
    /\ \/ heap = <<SampleMap>> /\ pctx = [values |-> 1]
       \/ heap = <<>> /\ pctx = [values |-> NilRef]
    /\ evalRes = NoEval
    /\ PipelineIdle
    /\ BuilderIdle
    /\ pctx2 = [values |-> NilRef]
    /\ lastOp = NoOp
    /\ lhs = NilV
    /\ rhs = NilV
    /\ op = ConditionOperandInvalid
    /\ cmpRes = NoResult

EvaluateValueCondition ==
    /\ pc = "evaluate"
    /\ cond.c = "value"
    /\ evalRes' = Evaluate(cond, heap, pctx, <<>>)
    /\ pc' = "evaluated"
    /\ UNCHANGED <<cond, compareVars, contextVars, pipelineVars, builderVars>>

EvaluateAnd ==
    /\ pc = "evaluate"
    /\ cond.c = "and"
    /\ evalRes' = Evaluate(cond, heap, pctx, <<>>)
    /\ pc' = "evaluated"
    /\ UNCHANGED <<cond, compareVars, contextVars, pipelineVars, builderVars>>

EvaluateOr ==
    /\ pc = "evaluate"
    /\ cond.c = "or"
    /\ evalRes' = Evaluate(cond, heap, pctx, <<>>)
    /\ pc' = "evaluated"
    /\ UNCHANGED <<cond, compareVars, contextVars, pipelineVars, builderVars>>

NextCondition == EvaluateValueCondition \/ EvaluateAnd \/ EvaluateOr

SpecCondition == InitCondition /\ [][NextCondition]_vars

(***************************************************************************)
(* Claims about AndCondition and OrCondition.                              *)
(***************************************************************************)
\* C4: an AndCondition without children evaluates to (true, nil) and an
\* OrCondition without children to (false, nil), in every context.
C4_EmptyCombinators ==
    (pc = "evaluated" /\ cond.c \in {"and", "or"} /\ cond.Conditions = <<>>) =>
        /\ evalRes.err = NoErr
        /\ evalRes.val = (cond.c = "and")

\* The empty AndCondition has been evaluated to (true, nil) in the sample
\* context.
C4_Witness ==
    /\ pc = "evaluated"
    /\ cond = AndCondition(<<>>)
    /\ pctx.values # NilRef
    /\ evalRes.val
    /\ evalRes.err = NoErr

\* What child i of the combinator returns when evaluated on its own.
ChildResult(i) == Evaluate(cond.Conditions[i], heap, pctx, <<i>>)

\* Child i decides the combinator: it is absent, fails, or returns false
\* (for AND) or true (for OR).
Decides(i) ==
    \/ cond.Conditions[i] = NilCondition
    \/ ChildResult(i).err # NoErr
    \/ ChildResult(i).val = (cond.c = "or")

Deciders == {i \in 1..Len(cond.Conditions) : Decides(i)}

FirstDecider == CHOOSE i \in Deciders : \A j \in Deciders : i <= j

\* The number of children the combinator is to evaluate: all of them up to
\* the first deciding one, itself included unless it is absent.
LastEvaluated ==
    IF Deciders = {}
    THEN Len(cond.Conditions)
    ELSE IF cond.Conditions[FirstDecider] = NilCondition
    THEN FirstDecider - 1
    ELSE FirstDecider

\* The Evaluate calls made on the children of the root, in order.
ChildCalls ==
    SelectSeq(evalRes.calls, LAMBDA e : e[1] = "Evaluate" /\ Len(e[2]) = 1)

\* C5: AND and OR evaluate their children in listed order and stop at the
\* first deciding child.  A false child of AND gives (false, nil), a true
\* child of OR (true, nil), an error or an absent child met first gives
\* that error (ErrNilCondition for an absent child), and nothing at or
\* below a later child is called.
C5_ShortCircuitInOrder ==
    (pc = "evaluated" /\ cond.c \in {"and", "or"}) =>
        /\ ChildCalls = [i \in 1..LastEvaluated |-> <<"Evaluate", <<i>>>>]
        /\ \A n \in 1..Len(evalRes.calls) :
              Len(evalRes.calls[n][2]) >= 1 =>
                  evalRes.calls[n][2][1] <= LastEvaluated
        /\ IF Deciders = {}
           THEN evalRes.err = NoErr /\ evalRes.val = (cond.c = "and")
           ELSE IF cond.Conditions[FirstDecider] = NilCondition
           THEN evalRes.err = Err("ErrNilCondition", <<>>)
           ELSE IF ChildResult(FirstDecider).err # NoErr
           THEN evalRes.err = ChildResult(FirstDecider).err
           ELSE evalRes.err = NoErr /\ evalRes.val = (cond.c = "or")

\* OR of [true, error-raising, absent] has returned (true, nil) having
\* called its first child only.
C5_Witness ==
    /\ pc = "evaluated"
    /\ cond = OrCondition(<<FixedTrue, FixedError, NilCondition>>)
    /\ evalRes = Returned(TRUE, NoErr,
                          <<<<"Evaluate", <<>>>>, <<"Evaluate", <<1>>>>>>)

(***************************************************************************)
(* Claims about ValueCondition.                                            *)
(***************************************************************************)
\* The Build calls of the evaluated condition, in the order made.
BuildCalls ==
    [n \in 1..(Len(evalRes.calls) - 1) |-> evalRes.calls[n + 1][3]]

\* C14: ValueCondition.Evaluate fails with InvalidCondition and builds
\* nothing when a builder is absent or the operand is Invalid; otherwise
\* it builds LHS, then RHS, returns the LHS build error without building
\* RHS, or the RHS build error, and with both built returns what the
\* comparator returns for (lhs, rhs, operand).
C14_ValueConditionEvaluate ==
    (pc = "evaluated" /\ cond.c = "value") =>
        IF \/ cond.LHS = NilBuilder
           \/ cond.RHS = NilBuilder
           \/ cond.Operand = ConditionOperandInvalid
        THEN /\ evalRes.val = FALSE
             /\ evalRes.err.is = "ErrInvalidCondition"
             /\ BuildCalls = <<>>
        ELSE LET l == Build(cond.LHS, heap, pctx)
                 r == Build(cond.RHS, heap, pctx)
             IN IF l.err # NoErr
                THEN /\ evalRes.val = FALSE
                     /\ evalRes.err.is = l.err.is
                     /\ BuildCalls = <<"LHS">>
                ELSE IF r.err # NoErr
                THEN /\ evalRes.val = FALSE
                     /\ evalRes.err.is = r.err.is
                     /\ BuildCalls = <<"LHS", "RHS">>
                ELSE /\ evalRes.val = compareValues(l.v, r.v, cond.Operand).val
                     /\ evalRes.err = compareValues(l.v, r.v, cond.Operand).err
                     /\ BuildCalls = <<"LHS", "RHS">>

\* With the context {"x": 5, ...}, Dynamic("x") > Literal(3) has evaluated
\* to (true, nil), LHS built before RHS.
C14_Witness ==
    /\ pc = "evaluated"
    /\ pctx.values # NilRef
    /\ cond = ValueCondition(DynamicValue("x", NilGetter, NilV),
                             LiteralValue(Three), ConditionGreaterThan)
    /\ evalRes.val = TRUE
    /\ evalRes.err = NoErr
    /\ BuildCalls = <<"LHS", "RHS">>

(***************************************************************************)
(* SpecContext: a PipelineContext c, its clone c2, and SetValue calls on   *)
(* either, in any number and order.                                        *)
(***************************************************************************)
Names == {"a", "b"}

StoredValues == {Five, Three, NilV}

\* Every map from some of the names to stored values.
Maps == UNION {[D -> StoredValues] : D \in SUBSET Names}

InitContext ==
    /\ pc = "fresh"
    /\ \/ \E m \in Maps : heap = <<m>> /\ pctx = [values |-> 1]
       \/ heap = <<>> /\ pctx = [values |-> NilRef]
    /\ pctx2 = [values |-> NilRef]
    /\ lastOp = NoOp
    /\ cond = NilCondition
    /\ evalRes = NoEval
    /\ PipelineIdle
    /\ BuilderIdle
    /\ lhs = NilV
    /\ rhs = NilV
    /\ op = ConditionOperandInvalid
    /\ cmpRes = NoResult

\* c.SetValue(k, v), before or after c was cloned.
SetOriginal ==
    /\ pc \in {"fresh", "cloned"}
    /\ \E k \in Names, v \in StoredValues :
          /\ heap' = SetValue(heap, pctx, k, v).heap
          /\ lastOp' = Op("SetValue", "c", k, v, SetValue(heap, pctx, k, v).panic)
    /\ UNCHANGED <<pc, pctx, pctx2, compareVars, conditionVars, pipelineVars, builderVars>>

\* c2 = c.Clone()
CloneContext ==
    /\ pc = "fresh"
    /\ heap' = Clone(heap, pctx).heap
    /\ pctx2' = Clone(heap, pctx).ctx
    /\ lastOp' = Op("Clone", "c", "", NilV, FALSE)
    /\ pc' = "cloned"
    /\ UNCHANGED <<pctx, compareVars, conditionVars, pipelineVars, builderVars>>

\* c2.SetValue(k, v)
SetClone ==
    /\ pc = "cloned"
    /\ \E k \in Names, v \in StoredValues :
          /\ heap' = SetValue(heap, pctx2, k, v).heap
          /\ lastOp' = Op("SetValue", "c2", k, v, SetValue(heap, pctx2, k, v).panic)
    /\ UNCHANGED <<pc, pctx, pctx2, compareVars, conditionVars, pipelineVars, builderVars>>

NextContext == SetOriginal \/ CloneContext \/ SetClone

SpecContext == InitContext /\ [][NextContext]_vars

\* C6: a clone is independent of its original.  Right after c2 = c.Clone()
\* GetValue agrees on c and c2 for every name; a SetValue on c2 leaves every
\* GetValue on c as it was (value and found flag), and a SetValue on c,
\* once cloned, leaves every GetValue on c2 as it was.
C6_CloneIndependent ==
    [][/\ lastOp'.name = "Clone" =>
             \A k \in Names : GetValue(heap', pctx', k) = GetValue(heap', pctx2', k)
       /\ (lastOp'.name = "SetValue" /\ lastOp'.on = "c2") =>
             \A k \in Names : GetValue(heap', pctx', k) = GetValue(heap, pctx, k)
       /\ (pc = "cloned" /\ lastOp'.name = "SetValue" /\ lastOp'.on = "c") =>
             \A k \in Names : GetValue(heap', pctx2', k) = GetValue(heap, pctx2, k)
      ]_vars

\* After cloning, c2.SetValue("a", 3) has been called and c still holds 5
\* under "a" while c2 holds 3.
C6_Witness ==
    /\ pc = "cloned"
    /\ lastOp = Op("SetValue", "c2", "a", Three, FALSE)
    /\ GetValue(heap, pctx, "a") = [v |-> Five, found |-> TRUE]
    /\ GetValue(heap, pctx2, "a") = [v |-> Three, found |-> TRUE]

(***************************************************************************)
(* Inputs of the executor and of the query node.                           *)
(***************************************************************************)
MaxNodes == 2

\* Two data sources named "a" (the later registration replaces the earlier)
\* and one, "b", whose getter fails.
InputDataSources ==
    {DataSource("a", "int", Five, NoErr),
     DataSource("a", "bool", StrV(<<97>>), NoErr),
     DataSource("b", "int", NilV, Err("ErrBackend", <<>>))}

QueryNodes ==
    {QueryNode(name, params, saveTo) :
        name \in {"a", "b", "foo"},
        params \in {NilBuilder, LiteralValue(Three), LiteralValue(BoolV(TRUE)),
                    DynamicValue("x", NilGetter, NilV),
                    DynamicValue("missing", NilGetter, NilV)},
        saveTo \in {"result", "x"}}

PipelineNodes ==
    {QueryNode("a", LiteralValue(Three), "result"),
     QueryNode("foo", LiteralValue(Three), "result"),
     QueryNode("b", LiteralValue(Three), "x"),
     ReturnNode(DynamicValue("result", NilGetter, NilV)),
     ReturnNode(LiteralValue(Three))}
    \cup {BranchNode(c, t, f, clone) :
            c \in {FixedTrue, FixedFalse, FixedError},
            t \in {NilPipeline,
                   Pipeline(<<QueryNode("a", LiteralValue(Three), "result")>>)},
            f \in {NilPipeline,
                   Pipeline(<<QueryNode("a", LiteralValue(BoolV(TRUE)), "x")>>)},
            clone \in BOOLEAN}

Pipelines == {Pipeline(ns) : ns \in SeqsUpTo(PipelineNodes, MaxNodes)}

(***************************************************************************)
(* SpecPipeline: data sources are registered with a new executor; then     *)
(* either Execute is called on a pipeline, or QueryNode.Execute on a query *)
(* node and a context.                                                     *)
(***************************************************************************)
InitPipeline ==
    /\ \/ /\ pc = "pipeline"
          /\ pipeline \in Pipelines
          /\ node = NoNode
          /\ heap = <<>>
          /\ pctx = [values |-> NilRef]
       \/ /\ pc = "node"
          /\ pipeline = Pipeline(<<>>)
          /\ node \in QueryNodes
          /\ \/ heap = <<SampleMap>> /\ pctx = [values |-> 1]
             \/ heap = <<>> /\ pctx = [values |-> NilRef]
    /\ dataSources = <<>>
    /\ called = <<>>
    /\ execRes = NoExec
    /\ nodeRes = NoNodeRes
    /\ pctx2 = [values |-> NilRef]
    /\ lastOp = NoOp
    /\ cond = NilCondition
    /\ evalRes = NoEval
    /\ BuilderIdle
    /\ lhs = NilV
    /\ rhs = NilV
    /\ op = ConditionOperandInvalid
    /\ cmpRes = NoResult

RegisterDataSource ==
    /\ pc \in {"pipeline", "node"}
    /\ \E source \in InputDataSources :
          dataSources' = Register(dataSources, source)
    /\ UNCHANGED <<pc, pipeline, node, called, execRes, nodeRes>>
    /\ UNCHANGED <<compareVars, contextVars, conditionVars, builderVars>>

Execute ==
    /\ pc = "pipeline"
    /\ execRes' = ExecutorExecute(pipeline)
    /\ pc' = "executed"
    /\ UNCHANGED <<dataSources, pipeline, node, called, nodeRes>>
    /\ UNCHANGED <<compareVars, contextVars, conditionVars, builderVars>>

ExecuteQueryNode ==
    /\ pc = "node"
    /\ LET r == QueryNodeExecute(node, heap, pctx, dataSources)
       IN /\ heap' = r.heap
          /\ called' = called \o r.queries
          /\ nodeRes' = [err |-> r.err, panic |-> r.panic]
    /\ pc' = "queried"
    /\ UNCHANGED <<dataSources, pipeline, node, execRes>>
    /\ UNCHANGED <<compareVars, pctx, pctx2, lastOp, conditionVars, builderVars>>

NextPipeline == RegisterDataSource \/ Execute \/ ExecuteQueryNode

SpecPipeline == InitPipeline /\ [][NextPipeline]_vars

(***************************************************************************)
(* Claims about the executor and the query node.                           *)
(***************************************************************************)
\* What the design has the pipeline do with the registered data sources.
Designed == RunPipeline(pipeline.Nodes, dataSources)

\* C7: Execute on a pipeline whose nodes succeed up to a Return node
\* returns the value that node builds, with no error, having run the nodes
\* before the Return node and none after it.
C7_ExecuteReturnsReturnValue ==
    (pc = "executed" /\ Designed.status = "returned") =>
        /\ execRes = Got(Designed.v)
        /\ called = Designed.queries

\* The top-level node i is reached and is a Branch whose condition
\* evaluates, without error, to the side given by absent: the side whose
\* pipeline is absent (TRUE) or present (FALSE).
BranchTaken(i, absent) ==
    LET nd == pipeline.Nodes[i]
        before == RunPipeline(SubSeq(pipeline.Nodes, 1, i - 1), dataSources)
        c == Evaluate(nd.Condition, before.heap, [values |-> 1], <<>>)
    IN /\ nd.n = "branch"
       /\ before.status = "completed"
       /\ c.err = NoErr
       /\ (IF c.val THEN nd.TruePipeline ELSE nd.FalsePipeline).isNil = absent

\* C8: when a Branch node's condition selects a pipeline that is absent,
\* Execute returns the TerminatedEarly error and no later node runs.
C8_AbsentBranchTerminatesEarly ==
    (pc = "executed" /\ \E i \in 1..Len(pipeline.Nodes) : BranchTaken(i, TRUE)) =>
        /\ execRes.err = Err("ErrTerminatedEarly", <<>>)
        /\ called = Designed.queries

ParamsBuilt ==
    node.Params # NilBuilder /\ Build(node.Params, heap, pctx).err = NoErr

NotFoundNothingDone ==
    /\ ~nodeRes'.panic
    /\ nodeRes'.err = Err("ErrDataSourceNotFound", <<node.DataSourceName>>)
    /\ called' = called
    /\ heap' = heap

\* C9 as stated: QueryNode.Execute with an unregistered data source name
\* returns an error wrapping ErrDataSourceNotFound that names the data
\* source, queries nothing and leaves the context as it was.
C9_UnregisteredIsNotFound ==
    [][(/\ pc = "node"
        /\ pc' = "queried"
        /\ node.DataSourceName \notin DOMAIN dataSources) => NotFoundNothingDone
      ]_vars

\* C9, amended: the same, for a node whose params build without error.
C9_UnregisteredIsNotFoundOnceParamsBuilt ==
    [][(/\ pc = "node"
        /\ pc' = "queried"
        /\ node.DataSourceName \notin DOMAIN dataSources
        /\ ParamsBuilt) => NotFoundNothingDone
      ]_vars

\* With "a" and "b" registered, a query of "foo" has failed with
\* ErrDataSourceNotFound naming "foo", nothing queried, nothing stored.
C9_Witness ==
    /\ pc = "queried"
    /\ node = QueryNode("foo", LiteralValue(Three), "result")
    /\ DOMAIN dataSources = {"a", "b"}
    /\ nodeRes = [err |-> Err("ErrDataSourceNotFound", <<"foo">>), panic |-> FALSE]
    /\ called = <<>>
    /\ heap = <<SampleMap>>

\* C10: a Branch node runs the one sub-pipeline its condition selects,
\* against a clone of the context when CloneContext is set (the parent's
\* context is then as before the branch) and against the parent's context
\* otherwise (the writes are then seen by the parent's later nodes), and
\* the parent resumes with its next node.  Execute therefore makes the
\* queries, and returns the value and error, of that run.
C10_BranchRunsChosenPipeline ==
    (pc = "executed" /\ \E i \in 1..Len(pipeline.Nodes) : BranchTaken(i, FALSE)) =>
        /\ execRes = [v |-> Designed.v, err |-> Designed.err]
        /\ called = Designed.queries

(***************************************************************************)
(* Inputs of the getters and of DynamicValue.                              *)
(***************************************************************************)
\* Keys of every kind: none, field names, indices (int, uint8, float64),
\* a boolean and a nil pointer.
GetterKeys ==
    {NilV, StrV(<<88>>), StrV(<<90>>), BoolV(TRUE), PtrV(0),
     IntV("int", Zero64), IntV("int", FromInt(-1)), IntV("int", FromInt(88)),
     IntV("uint8", One64),
     FloatV("float64", Flt(FALSE, <<0, 0, 0, 0, 1>>, FALSE))}

Getters == {DefaultValueGetter, StaticValueGetter(Three)}

\* The context {"": 3, "x": 5}.
EmptyNameMap == [k \in {"", "x"} |-> IF k = "" THEN Three ELSE Five]

\* The contexts of Build: two with entries, one empty, one with a nil map.
BuildContexts ==
    {[heap |-> <<SampleMap>>, values |-> 1],
     [heap |-> <<EmptyNameMap>>, values |-> 1],
     [heap |-> <<<<>>>>, values |-> 1],
     [heap |-> <<>>, values |-> NilRef]}

DynamicValues ==
    {DynamicValue(k, g, key) :
        k \in {"", "x", "n", "p", "missing"},
        g \in {NilGetter} \cup Getters,
        key \in {NilV, StrV(<<88>>), IntV("int", Zero64)}}

(***************************************************************************)
(* SpecBuilder: GetValue of either getter applied to every input and key,  *)
(* and DynamicValue.Build applied in every context.                        *)
(***************************************************************************)
InitBuilder ==
    /\ \/ /\ pc = "getvalue"
          /\ valueGetter \in Getters
          /\ getInput \in Values
          /\ getKey \in GetterKeys
          /\ builder = NilBuilder
          /\ heap = <<>>
          /\ pctx = [values |-> NilRef]
       \/ /\ pc = "build"
          /\ valueGetter = NilGetter
          /\ getInput = NilV
          /\ getKey = NilV
          /\ builder \in DynamicValues
          /\ \E c \in BuildContexts :
                heap = c.heap /\ pctx = [values |-> c.values]
    /\ got = NoGot
    /\ built = NoGot
    /\ pctx2 = [values |-> NilRef]
    /\ lastOp = NoOp
    /\ cond = NilCondition
    /\ evalRes = NoEval
    /\ lhs = NilV
    /\ rhs = NilV
    /\ op = ConditionOperandInvalid
    /\ cmpRes = NoResult
    /\ PipelineIdle

DefaultValueGetterGetValue ==
    /\ pc = "getvalue"
    /\ valueGetter = DefaultValueGetter
    /\ got' = DefaultGetValue(getInput, getKey)
    /\ pc' = "got"
    /\ UNCHANGED <<valueGetter, getInput, getKey, builder, built>>
    /\ UNCHANGED <<compareVars, contextVars, conditionVars, pipelineVars>>

StaticValueGetterGetValue ==
    /\ pc = "getvalue"
    /\ valueGetter.g = "static"
    /\ got' = StaticGetValue(valueGetter, getInput, getKey)
    /\ pc' = "got"
    /\ UNCHANGED <<valueGetter, getInput, getKey, builder, built>>
    /\ UNCHANGED <<compareVars, contextVars, conditionVars, pipelineVars>>

DynamicValueBuild ==
    /\ pc = "build"
    /\ built' = DynamicBuild(builder, heap, pctx)
    /\ pc' = "built"
    /\ UNCHANGED <<valueGetter, getInput, getKey, got, builder>>
    /\ UNCHANGED <<compareVars, contextVars, conditionVars, pipelineVars>>

NextBuilder ==
    \/ DefaultValueGetterGetValue
    \/ StaticValueGetterGetValue
    \/ DynamicValueBuild

SpecBuilder == InitBuilder /\ [][NextBuilder]_vars

(***************************************************************************)
(* Claims about the getters and the builders.                              *)
(***************************************************************************)
\* Boolean, integer, float and string values.
IsPrimitive(v) == Kind(v) \in {"bool", "string"} \/ isNumeric(Kind(v))

\* C15: DefaultValueGetter.GetValue of a primitive input returns the input
\* and no error, for every key, the nil key included.
C15_PrimitiveReturnedForEveryKey ==
    (pc = "got" /\ valueGetter = DefaultValueGetter /\ IsPrimitive(getInput)) =>
        got = Got(getInput)

\* C16: Dynamic.Build fails with NoContextKeyProvided for the empty key,
\* with ValueNotFoundInContext for a key without entry, and otherwise
\* returns the stored value, or with a getter what
\* getter.GetValue(stored value, getter key) returns; a stored nil is an
\* entry; the context is not modified.
C16_DynamicBuild ==
    [][(pc = "build" /\ pc' = "built") =>
          LET m == MapAt(heap, pctx.values)
              k == builder.ContextKey
          IN /\ heap' = heap
             /\ pctx' = pctx
             /\ IF k = ""
                THEN built' = NotGot("ErrNoContextKeyProvided")
                ELSE IF k \notin DOMAIN m
                THEN built' = NotGot("ErrValueNotFoundInContext")
                ELSE IF builder.Getter = NilGetter
                THEN built' = Got(m[k])
                ELSE IF builder.Getter = DefaultValueGetter
                THEN built' = DefaultGetValue(m[k], builder.Key)
                ELSE built' = Got(builder.Getter.Value)
      ]_vars

\* In the context {"": 3, "x": 5} the builder with the empty key has
\* failed with ErrNoContextKeyProvided.
C16_Witness ==
    /\ pc = "built"
    /\ heap = <<EmptyNameMap>>
    /\ builder = DynamicValue("", NilGetter, NilV)
    /\ built = NotGot("ErrNoContextKeyProvided")

=============================================================================
